---- MODULE Spec2Model ----
(***************************************************************************)
(* Streaming conversation session manager of the giga_agent front end:     *)
(* identity resolution (useUserConfig), the auth lifecycle (AuthProvider), *)
(* route gating (ProtectedRoute), the chat controller's stream config      *)
(* (Chat), the chat history store (useChatHistory) and the repeated-error  *)
(* circuit breaker (ChatError).                                            *)
(*                                                                         *)
(* Strings whose characters matter (user ids) are tuples of one-character  *)
(* strings; opaque strings (tokens, error texts) are TLA+ strings.         *)
(***************************************************************************)
EXTENDS Integers, Sequences, FiniteSets, TLC

VARIABLES
    \* AuthProvider state (AuthContext.tsx 23-25)
    user, token, loading,
    \* localStorage keys auth_token, auth_user, giga_agent_chat_history
    ls_auth_token, ls_auth_user, ls_chat_history,
    \* asynchronous calls in flight (continuations waiting on the network)
    verifyPending, loginPending, logoutPending, sessionPending,
    \* the tokens createRedisSession was called with since the page loaded
    createSessionLog,
    \* what is rendered: current route, whether <Chat> is mounted, the hook
    \* value of useUserConfig, the configurable handed to useStream
    route, chatMounted, userConfig, streamConfigurable,
    \* useChatHistory: one `chats` state per mounted consumer, Date.now()
    chats, now,
    \* ChatError: the stream's error and isLoading, settings.debugMode,
    \* errorHistoryRef.current, repeatedError, shouldStop
    threadError, threadIsLoading, debugMode, errorHistory, repeatedError, shouldStop,
    \* history (ghost) variables: identity under which a thread was last
    \* saved, and the last operation that ran
    savedBy, lastOp,
    \* InnerApp: reloadKey and currentThreadId (App.tsx 27-28); the :threadId
    \* route parameter; Chat: currentThreadId and debugMessages (Chat.tsx
    \* 28-29); thread creations and addThreadToRedisSession calls in
    \* flight; the next id the backend assigns
    reloadKey, appCurrentThreadId, routeThreadId, chatCurrentThreadId, debugMessages,
    inflight, linkPending, nextThreadId,
    \* the messages of the stream as useStableMessages hands them to the view
    messages

authVars    == <<user, token, loading, ls_auth_token, ls_auth_user>>
asyncVars   == <<verifyPending, loginPending, logoutPending, sessionPending, createSessionLog>>
renderVars  == <<route, chatMounted, userConfig, streamConfigurable>>
historyVars == <<chats, now, ls_chat_history, savedBy>>
breakerVars == <<threadError, threadIsLoading, debugMode, errorHistory, repeatedError, shouldStop>>
threadVars  == <<reloadKey, appCurrentThreadId, routeThreadId, chatCurrentThreadId,
                 debugMessages, inflight, linkPending, nextThreadId, messages>>
vars == <<authVars, asyncVars, renderVars, historyVars, breakerVars, threadVars, lastOp>>

\* JavaScript null / undefined for record-valued things, and for strings.
NullRec == [null |-> TRUE]
Null == "null"

----------------------------------------------------------------------------
(* Character strings *)

WhiteSpace == {" ", "\t"}

\* String.prototype.toLowerCase on the letters that occur in the inputs.
ToLowerChar(c) ==
    CASE c = "A" -> "a" [] c = "B" -> "b" [] c = "M" -> "m" [] c = "N" -> "n"
      [] c = "O" -> "o" [] c = "S" -> "s" [] c = "U" -> "u" [] c = "Y" -> "y"
      [] OTHER -> c

toLowerCase(s) == [i \in 1..Len(s) |-> ToLowerChar(s[i])]

RECURSIVE trimStart(_)
trimStart(s) ==
    IF s # <<>> /\ Head(s) \in WhiteSpace THEN trimStart(Tail(s)) ELSE s

RECURSIVE trimEnd(_)
trimEnd(s) ==
    IF s # <<>> /\ s[Len(s)] \in WhiteSpace THEN trimEnd(SubSeq(s, 1, Len(s) - 1)) ELSE s

\* String.prototype.trim
trim(s) == trimEnd(trimStart(s))

\* JavaScript truthiness of a string: only "" is falsy.
Truthy(s) == s # <<>>

anonymous == <<"a", "n", "o", "n", "y", "m", "o", "u", "s">>

\* Inputs: user ids as the server may return them.
MaxPad == 1

RECURSIVE Pads(_)
Pads(n) ==
    IF n = 0 THEN {<<>>}
    ELSE Pads(n - 1) \cup {<<w>> \o p : w \in WhiteSpace, p \in {q \in Pads(n - 1) : Len(q) = n - 1}}

IdCores ==
    { <<>>,
      <<"B", "o", "b">>,
      <<"A", "l">>,
      anonymous,
      <<"A", "n", "o", "n", "y", "m", "o", "u", "s">>,
      <<"A", "N", "O", "N", "Y", "M", "O", "U", "S">>,
      <<"a", "n", "o", "n", "y", "m", "o", "u">>,
      <<"a", "n", "o", "n", " ", "y", "m", "o", "u", "s">> }

UserIdInputs == {l \o c \o r : l \in Pads(MaxPad), c \in IdCores, r \in Pads(MaxPad)}

Tokens == {"tokA", "tokB"}

----------------------------------------------------------------------------
(* Identity context resolver and route gating *)

\* AuthContext.tsx 176: isAuthenticated: !!user && !!token
isAuthenticated(u, t) == u # NullRec /\ t # Null

\* user?.user_id as a truthy test
HasUserId(u) == u # NullRec /\ Truthy(u.user_id)

\* useUserConfig.tsx 28-57; NullRec stands for undefined
useUserConfig_NoLower(l, u, t) ==
    IF l THEN NullRec
    ELSE IF ~isAuthenticated(u, t) \/ ~HasUserId(u) THEN NullRec
    ELSE LET userId == trim(u.user_id) IN
         IF ~Truthy(userId) \/ userId = anonymous THEN NullRec
         ELSE [configurable |-> [user_id |-> userId]]

useUserConfig_NoTrim(l, u, t) ==
    IF l THEN NullRec
    ELSE IF ~isAuthenticated(u, t) \/ ~HasUserId(u) THEN NullRec
    ELSE LET userId == trim(u.user_id) IN
         IF ~Truthy(userId) \/ toLowerCase(userId) = anonymous THEN NullRec
         ELSE [configurable |-> [user_id |-> u.user_id]]

useUserConfig(l, u, t) ==
    IF l THEN NullRec
    ELSE IF ~isAuthenticated(u, t) \/ ~HasUserId(u) THEN NullRec
    ELSE LET userId == trim(u.user_id) IN
         IF ~Truthy(userId) \/ toLowerCase(userId) = anonymous THEN NullRec
         ELSE [configurable |-> [user_id |-> userId]]

\* useUserConfig.tsx 65-73
useUserId(u, t) ==
    IF ~isAuthenticated(u, t) \/ ~HasUserId(u) THEN NullRec ELSE [user_id |-> u.user_id]

\* ProtectedRoute.tsx 10-29: what the route shows
ProtectedRoute_NoSpinner(l, u, t) ==
    IF ~isAuthenticated(u, t) THEN "login" ELSE "children"

ProtectedRoute(l, u, t) ==
    IF l THEN "spinner"
    ELSE IF ~isAuthenticated(u, t) THEN "login"
    ELSE "children"

Routes == {"/", "/threads", "/register"}

\* App.tsx 95-125: <Chat> is an element of "/" and "/threads/:threadId",
\* both below <ProtectedRoute>; "/register" is outside it.
ChatIsMounted(l, u, t, r) ==
    r \in {"/", "/threads"} /\ ProtectedRoute(l, u, t) = "children"

\* Chat.tsx 38-62
threadConfig(uc, l, u, t) ==
    IF uc # NullRec /\ Truthy(uc.configurable.user_id)
        THEN [configurable |-> uc.configurable]
    ELSE IF l THEN NullRec
    ELSE IF ~isAuthenticated(u, t) \/ ~HasUserId(u) THEN NullRec
    ELSE [configurable |-> [user_id |-> u.user_id]]

\* Chat.tsx 64-72: configurable: threadConfig?.configurable
useStreamConfigurable(uc, l, u, t) ==
    LET tc == threadConfig(uc, l, u, t) IN
    IF tc = NullRec THEN NullRec ELSE tc.configurable

\* One render pass of the tree for auth state (l, u, t) at route r.
Render(l, u, t, r) ==
    /\ route' = r
    /\ userConfig' = useUserConfig(l, u, t)
    /\ chatMounted' = ChatIsMounted(l, u, t, r)
    /\ streamConfigurable' =
         IF ChatIsMounted(l, u, t, r)
         THEN useStreamConfigurable(useUserConfig(l, u, t), l, u, t)
         ELSE NullRec

----------------------------------------------------------------------------
(* Chat history store: useChatHistory *)

\* part_003 13: const MAX_CHATS = 50
MAX_CHATS == 50

\* part_003 75, 79: slice(0, 100)
TITLE_MAX == 100

Consumers == {"Chat", "Sidebar", "ChatHistoryList"}

Min(a, b) == IF a < b THEN a ELSE b

\* Array.prototype.slice(0, n)
slice(s, n) == SubSeq(s, 1, Min(Len(s), n))

\* Array.prototype.slice(-n)
sliceLast(s, n) == IF Len(s) <= n THEN s ELSE SubSeq(s, Len(s) - n + 1, Len(s))

\* Array.prototype.sort((a, b) => b.updatedAt - a.updatedAt): the stable
\* descending order (ECMAScript 2019), built by insertion from the left;
\* an element goes behind every kept element that is not older than it.
\* (SortInto binds each step's result before the next step reads it.)
InsertSorted(acc, x) ==
    SelectSeq(acc, LAMBDA y : y.updatedAt >= x.updatedAt) \o <<x>>
        \o SelectSeq(acc, LAMBDA y : y.updatedAt < x.updatedAt)

RECURSIVE SortInto(_, _, _)
SortInto(acc, s, i) ==
    IF i > Len(s) THEN acc
    ELSE CHOOSE r \in {SortInto(next, s, i + 1) : next \in {InsertSorted(acc, s[i])}} : TRUE

sortByUpdatedAtDesc(s) == SortInto(<<>>, s, 1)

\* prevChats.findIndex(chat => chat.threadId === threadId); 0 stands for -1
findIndex(s, threadId) ==
    LET hits == {i \in 1..Len(s) : s[i].threadId = threadId} IN
    IF hits = {} THEN 0 ELSE CHOOSE i \in hits : \A j \in hits : i <= j

\* prevChats.filter(chat => chat.threadId !== threadId)
filterOut(s, threadId) == SelectSeq(s, LAMBDA chat : chat.threadId # threadId)

\* Case-insensitive test that pat occurs in s at position i.
MatchesAt(s, i, pat) ==
    /\ i + Len(pat) - 1 <= Len(s)
    /\ \A k \in 1..Len(pat) : ToLowerChar(s[i + k - 1]) = pat[k]

\* text.replace(/pat/gi, "")
\* the matches a global regular expression takes: scanning from the left,
\* every occurrence that does not start inside an earlier taken match
matchStarts(s, pat) ==
    LET occurrences == {j \in 1..Len(s) : MatchesAt(s, j, pat)} IN
    CHOOSE taken \in SUBSET occurrences :
        \A j \in occurrences :
            j \in taken <=> ~\E k \in taken : k < j /\ j < k + Len(pat)

\* s without the characters of the matches that start at `taken`
dropMatches(s, taken, n) ==
    LET kept == SelectSeq([i \in 1..Len(s) |-> i],
                          LAMBDA i : ~\E k \in taken : k <= i /\ i < k + n)
    IN  CHOOSE r \in {[m \in 1..Len(indices) |-> s[indices[m]]] : indices \in {kept}} : TRUE

removeAll(text, pat) ==
    CHOOSE r \in {dropMatches(s, taken, Len(pat)) :
                    s \in {text}, taken \in {matchStarts(text, pat)}} : TRUE

TaskOpen == <<"<", "t", "a", "s", "k", ">">>
TaskClose == <<"<", "/", "t", "a", "s", "k", ">">>

\* part_003 56-62
cleanMessage(text) == trim(removeAll(removeAll(text, TaskOpen), TaskClose))

\* `Чат ${new Date().toLocaleDateString("ru-RU")}`: the date is one symbol
placeholderTitle == <<"C", "h", "a", "t", " ", "#">>

\* part_003 72-82; an absent argument is the empty string (only the
\* truthiness of firstMessage and customTitle is ever tested)
chatTitle(firstMessage, customTitle) ==
    IF Truthy(customTitle) /\ Truthy(trim(customTitle))
        THEN slice(trim(customTitle), TITLE_MAX)
    ELSE IF Truthy(firstMessage) /\ Truthy(trim(firstMessage))
        THEN LET t == slice(cleanMessage(firstMessage), TITLE_MAX) IN
             IF Truthy(t) THEN t ELSE placeholderTitle
    ELSE placeholderTitle

\* part_003 67-109: the array saveChat builds from prevChats before it is
\* cut to MAX_CHATS; t is Date.now()
saveChat_Duplicate(prevChats, threadId, firstMessage, customTitle, t) ==
    sortByUpdatedAtDesc(
        << [threadId |-> threadId, title |-> chatTitle(firstMessage, customTitle),
            createdAt |-> t, updatedAt |-> t, firstMessage |-> firstMessage] >>
        \o prevChats)

saveChat_NoSort(prevChats, threadId, firstMessage, customTitle, t) ==
    LET existingIndex == findIndex(prevChats, threadId)
        title == chatTitle(firstMessage, customTitle)
    IN  IF existingIndex >= 1
        THEN [prevChats EXCEPT ![existingIndex] =
                [@ EXCEPT !.title = title, !.updatedAt = t,
                          !.firstMessage = IF Truthy(firstMessage) THEN firstMessage ELSE @]]
        ELSE prevChats \o
             << [threadId |-> threadId, title |-> title, createdAt |-> t,
                 updatedAt |-> t, firstMessage |-> firstMessage] >>

saveChatArray_KeepsTitle(prevChats, threadId, firstMessage, customTitle, t) ==
    LET existingIndex == findIndex(prevChats, threadId)
        title == chatTitle(firstMessage, customTitle)
        newChats ==
            IF existingIndex >= 1
            THEN [prevChats EXCEPT ![existingIndex] =
                    [@ EXCEPT !.title = IF Truthy(firstMessage) \/ Truthy(customTitle)
                                        THEN title ELSE @,
                              !.updatedAt = t,
                              !.firstMessage = IF Truthy(firstMessage) THEN firstMessage ELSE @]]
            ELSE << [threadId |-> threadId, title |-> title, createdAt |-> t,
                     updatedAt |-> t, firstMessage |-> firstMessage] >> \o prevChats
    IN  sortByUpdatedAtDesc(newChats)

saveChatArray(prevChats, threadId, firstMessage, customTitle, t) ==
    LET existingIndex == findIndex(prevChats, threadId)
        title == chatTitle(firstMessage, customTitle)
        newChats ==
            IF existingIndex >= 1
            THEN [prevChats EXCEPT ![existingIndex] =
                    [@ EXCEPT !.title = title, !.updatedAt = t,
                              !.firstMessage = IF Truthy(firstMessage) THEN firstMessage ELSE @]]
            ELSE << [threadId |-> threadId, title |-> title, createdAt |-> t,
                     updatedAt |-> t, firstMessage |-> firstMessage] >> \o prevChats
    IN  sortByUpdatedAtDesc(newChats)

\* part_003 130: the array deleteChat builds
deleteChatArray(prevChats, threadId) == filterOut(prevChats, threadId)

\* part_003 148-153: the array updateChatTitle builds
updateChatTitleArray(prevChats, threadId, title, t) ==
    sortByUpdatedAtDesc(
        [i \in 1..Len(prevChats) |->
            IF prevChats[i].threadId = threadId
            THEN [prevChats[i] EXCEPT !.title = title, !.updatedAt = t]
            ELSE prevChats[i]])

\* part_003 113-114, 133-134, 156-157: localStorage.setItem(STORAGE_KEY,
\* JSON.stringify(newChats.slice(0, MAX_CHATS)))
persisted(newChats) == [json |-> slice(newChats, MAX_CHATS)]

\* part_003 20-41: what the load effect puts into `chats`
loadChats(u, stored) ==
    IF u = NullRec THEN <<>>
    ELSE IF stored = NullRec THEN <<>>
    ELSE sortByUpdatedAtDesc(stored.json)


----------------------------------------------------------------------------
(* Quiescent values of each group of variables, for the specifications     *)
(* that exercise one component while the others stay as they are.          *)

Alice == [user_id |-> <<"A", "l">>]
Bob   == [user_id |-> <<"B", "o", "b">>]

NoOp == [op |-> "none"]

AuthSignedIn(u, t) ==
    /\ user = u /\ token = t /\ loading = FALSE
    /\ ls_auth_token = t /\ ls_auth_user = [json |-> u]

AsyncIdle ==
    /\ verifyPending = Null /\ loginPending = {} /\ logoutPending = FALSE
    /\ sessionPending = Null /\ createSessionLog = {}

RenderedAt(r) ==
    /\ route = r
    /\ userConfig = useUserConfig(loading, user, token)
    /\ chatMounted = ChatIsMounted(loading, user, token, r)
    /\ streamConfigurable =
         IF ChatIsMounted(loading, user, token, r)
         THEN useStreamConfigurable(useUserConfig(loading, user, token), loading, user, token)
         ELSE NullRec

HistoryEmpty ==
    /\ chats = [c \in Consumers |-> <<>>] /\ now = MAX_CHATS
    /\ ls_chat_history = NullRec /\ savedBy = {}

\* No thread yet: a fresh InnerApp and Chat; 0 stands for null / no parameter.
ThreadIdle ==
    /\ reloadKey = 0 /\ appCurrentThreadId = 0 /\ routeThreadId = 0
    /\ chatCurrentThreadId = 0 /\ debugMessages = {}
    /\ inflight = {} /\ linkPending = {} /\ nextThreadId = 1
    /\ messages = <<>>

BreakerIdle ==
    /\ threadError = NullRec /\ threadIsLoading = FALSE /\ debugMode = FALSE
    /\ errorHistory = <<>> /\ repeatedError = Null /\ shouldStop = FALSE

----------------------------------------------------------------------------
(* Operations of one useChatHistory instance c.  t is the value Date.now() *)
(* returns in the call, writeOk whether localStorage.setItem succeeds      *)
(* (it throws when the quota is exceeded; the throw is caught).            *)

saveChat_KeepOldest(c, threadId, firstMessage, customTitle, t, writeOk) ==
    LET newChats == saveChatArray(chats[c], threadId, firstMessage, customTitle, t) IN
    /\ now' = t
    /\ ls_chat_history' = IF writeOk THEN [json |-> sliceLast(newChats, MAX_CHATS)]
                                     ELSE ls_chat_history
    /\ chats' = [chats EXCEPT ![c] = sliceLast(newChats, MAX_CHATS)]

saveChat_RollsBack(c, threadId, firstMessage, customTitle, t, writeOk) ==
    LET newChats == saveChatArray(chats[c], threadId, firstMessage, customTitle, t) IN
    /\ now' = t
    /\ ls_chat_history' = IF writeOk THEN persisted(newChats) ELSE ls_chat_history
    /\ chats' = IF writeOk THEN [chats EXCEPT ![c] = slice(newChats, MAX_CHATS)] ELSE chats

\* part_003 65-124
saveChat(c, threadId, firstMessage, customTitle, t, writeOk) ==
    LET newChats == saveChatArray(chats[c], threadId, firstMessage, customTitle, t) IN
    /\ now' = t
    /\ ls_chat_history' = IF writeOk THEN persisted(newChats) ELSE ls_chat_history
    /\ chats' = [chats EXCEPT ![c] = slice(newChats, MAX_CHATS)]

\* part_003 127-142
deleteChat(c, threadId, writeOk) ==
    LET newChats == deleteChatArray(chats[c], threadId) IN
    /\ now' = now
    /\ ls_chat_history' = IF writeOk THEN persisted(newChats) ELSE ls_chat_history
    /\ chats' = [chats EXCEPT ![c] = slice(newChats, MAX_CHATS)]

\* part_003 145-165
updateChatTitle(c, threadId, title, t, writeOk) ==
    LET newChats == updateChatTitleArray(chats[c], threadId, title, t) IN
    /\ now' = t
    /\ ls_chat_history' = IF writeOk THEN persisted(newChats) ELSE ls_chat_history
    /\ chats' = [chats EXCEPT ![c] = slice(newChats, MAX_CHATS)]

----------------------------------------------------------------------------
(* SpecHistory: one store instance under every interleaving of upsert,     *)
(* rename and remove.  The instance starts from a persisted collection     *)
(* left by n sequential new threads of an earlier page life.               *)

\* Date.now() is taken to be non-decreasing; two calls may fall into the
\* same millisecond.
MaxTicks == 1

InitialNow == MAX_CHATS

Instance == "Chat"

\* The collection n sequential saveChat(k) calls, k = 1..n, one millisecond
\* apart and the last at InitialNow, leave behind: newest first.
Populate(n) ==
    [i \in 1..n |->
        [threadId |-> n - i + 1, title |-> placeholderTitle,
         createdAt |-> InitialNow - i + 1, updatedAt |-> InitialNow - i + 1,
         firstMessage |-> <<>>]]

InitSizes == {0, MAX_CHATS - 1, MAX_CHATS}

\* the oldest stored thread and a thread id the backend has just assigned
HistoryThreadIds == {1, MAX_CHATS + 1}
HistoryMessages == {<<>>, <<"h", "i">>}
HistoryTitles == {<<"R">>}
Clock == {t \in {now, now + 1} : t <= InitialNow + MaxTicks}

InitHistory ==
    /\ ThreadIdle
    /\ AuthSignedIn(Alice, "tokA") /\ AsyncIdle /\ RenderedAt("/") /\ BreakerIdle
    /\ now = InitialNow /\ savedBy = {}
    /\ \E n \in InitSizes :
         /\ ls_chat_history = IF n = 0 THEN NullRec ELSE persisted(Populate(n))
         /\ chats = [c \in Consumers |->
                        IF c = Instance THEN loadChats(user, ls_chat_history) ELSE <<>>]
    /\ lastOp = NoOp

HistoryFrame == UNCHANGED <<authVars, asyncVars, renderVars, breakerVars, threadVars, savedBy>>

HSaveChat ==
    \E threadId \in HistoryThreadIds, fm \in HistoryMessages, t \in Clock :
        /\ saveChat(Instance, threadId, fm, <<>>, t, TRUE)
        /\ lastOp' = [op |-> "saveChat", threadId |-> threadId]
        /\ HistoryFrame

HDeleteChat ==
    \E threadId \in HistoryThreadIds :
        /\ deleteChat(Instance, threadId, TRUE)
        /\ lastOp' = [op |-> "deleteChat", threadId |-> threadId]
        /\ HistoryFrame

HUpdateChatTitle ==
    \E threadId \in HistoryThreadIds, title \in HistoryTitles, t \in Clock :
        /\ updateChatTitle(Instance, threadId, title, t, TRUE)
        /\ lastOp' = [op |-> "updateChatTitle", threadId |-> threadId]
        /\ HistoryFrame

NextHistory == HSaveChat \/ HDeleteChat \/ HUpdateChatTitle

SpecHistory == InitHistory /\ [][NextHistory]_vars


ThreadIdsOf(s) == {s[i].threadId : i \in 1..Len(s)}
RecordsOf(s) == {s[i] : i \in 1..Len(s)}
SortedDesc(s) == \A i \in 1..(Len(s) - 1) : s[i].updatedAt >= s[i + 1].updatedAt

\* C6: after any sequence of saveChat, updateChatTitle and deleteChat calls
\* on one store instance, the collection (in memory and as persisted) holds
\* at most MAX_CHATS records and is sorted by updatedAt, newest first.
C6_BoundedAndSorted ==
    /\ Len(chats[Instance]) <= MAX_CHATS
    /\ SortedDesc(chats[Instance])
    /\ ls_chat_history # NullRec =>
         /\ Len(ls_chat_history.json) <= MAX_CHATS
         /\ SortedDesc(ls_chat_history.json)

\* A rename has moved the oldest record of a full collection to the top.
C6_Witness ==
    /\ lastOp = [op |-> "updateChatTitle", threadId |-> 1]
    /\ Len(chats[Instance]) = MAX_CHATS
    /\ chats[Instance][1].threadId = 1
    /\ chats[Instance][1].updatedAt > chats[Instance][2].updatedAt

\* C7: threadId is a unique key.  No state holds two records with the same
\* threadId; a saveChat(T) leaves exactly one record for T, whose updatedAt
\* is the time of that call and whose createdAt is the time of that call
\* when T was absent and the createdAt T already had when it was present
\* (so, by induction, the time of the call that first inserted T).
C7_UniqueKey ==
    /\ [](\A i, j \in 1..Len(chats[Instance]) :
            chats[Instance][i].threadId = chats[Instance][j].threadId => i = j)
    /\ [][lastOp'.op = "saveChat" =>
            LET T == lastOp'.threadId
                old == chats[Instance]
                new == chats'[Instance]
                i == findIndex(old, T)
                hits == {j \in 1..Len(new) : new[j].threadId = T}
            IN  /\ Cardinality(hits) = 1
                /\ \A j \in hits :
                     /\ new[j].updatedAt = now'
                     /\ new[j].createdAt = IF i >= 1 THEN old[i].createdAt ELSE now'
         ]_vars

\* The thread assigned in this page life was upserted twice, a millisecond
\* or more apart.
C7_Witness ==
    /\ lastOp = [op |-> "saveChat", threadId |-> MAX_CHATS + 1]
    /\ \E i \in 1..Len(chats[Instance]) :
         /\ chats[Instance][i].threadId = MAX_CHATS + 1
         /\ chats[Instance][i].createdAt < chats[Instance][i].updatedAt
         /\ chats[Instance][i].updatedAt = now

\* C8: a saveChat of a threadId that is not in a full collection keeps
\* MAX_CHATS records: the new record is retained, exactly one old record is
\* dropped, no old record is older than the dropped one, and the others
\* are kept as they were.
C8_EvictsOldest ==
    [][(/\ lastOp'.op = "saveChat"
        /\ lastOp'.threadId \notin ThreadIdsOf(chats[Instance])
        /\ Len(chats[Instance]) = MAX_CHATS) =>
            LET T == lastOp'.threadId
                old == chats[Instance]
                new == chats'[Instance]
            IN  /\ Len(new) = MAX_CHATS
                /\ T \in ThreadIdsOf(new)
                /\ \E d \in 1..Len(old) :
                     /\ \A j \in 1..Len(old) : old[j].updatedAt >= old[d].updatedAt
                     /\ {r \in RecordsOf(new) : r.threadId # T} = RecordsOf(old) \ {old[d]}
      ]_vars

\* Two new threads in a row overflowed the full collection: threads 1 and 2,
\* the two least recently updated, are gone and MAX_CHATS records remain.
C8_Witness ==
    /\ lastOp.op = "saveChat"
    /\ Len(chats[Instance]) = MAX_CHATS
    /\ 2 \notin ThreadIdsOf(chats[Instance])
    /\ lastOp.threadId \in ThreadIdsOf(chats[Instance])


----------------------------------------------------------------------------
(* Error repetition circuit breaker: ChatError (ChatHistoryList.tsx 265-)  *)

\* ChatHistoryList.tsx 294: slice(-5)
RING_CAPACITY == 5

\* ChatHistoryList.tsx 297-298: length >= 3, slice(-3)
TRIP_COUNT == 3

\* The stream's error value: NullRec (none) or an object with a message.
\* An Error whose message is empty is truthy but has no error text.
ErrorTexts == {"timeout", "boom", ""}
StreamErrors == {NullRec} \cup {[message |-> m] : m \in ErrorTexts}

\* ChatHistoryList.tsx 277-279
errorMessage(err) == IF err = NullRec THEN "" ELSE err.message

\* everything of lastThree carries the text msg
every(ring, msg) == \A i \in 1..Len(ring) : ring[i].error = msg

\* ChatHistoryList.tsx 281-313: the body of the error-history effect, on
\* the component state st = [errorHistory, repeatedError, shouldStop];
\* t is Date.now()
errorEffect_WholeRing(st, err, isLoading, debug, t) ==
    LET msg == errorMessage(err) IN
    IF msg = "" \/ isLoading THEN st
    ELSE LET ring == sliceLast(Append(st.errorHistory, [error |-> msg, timestamp |-> t]),
                               RING_CAPACITY)
         IN  IF Len(ring) >= TRIP_COUNT
             THEN IF every(ring, msg) /\ ~debug
                  THEN [errorHistory |-> ring, repeatedError |-> msg, shouldStop |-> TRUE]
                  ELSE [errorHistory |-> ring, repeatedError |-> Null, shouldStop |-> FALSE]
             ELSE [st EXCEPT !.errorHistory = ring]

errorEffect_StaysTripped(st, err, isLoading, debug, t) ==
    LET msg == errorMessage(err) IN
    IF msg = "" \/ isLoading THEN st
    ELSE LET ring == sliceLast(Append(st.errorHistory, [error |-> msg, timestamp |-> t]),
                               RING_CAPACITY)
         IN  IF Len(ring) >= TRIP_COUNT /\ every(sliceLast(ring, TRIP_COUNT), msg) /\ ~debug
             THEN [errorHistory |-> ring, repeatedError |-> msg, shouldStop |-> TRUE]
             ELSE [st EXCEPT !.errorHistory = ring]

errorEffect_DropsNewest(st, err, isLoading, debug, t) ==
    LET msg == errorMessage(err) IN
    IF msg = "" \/ isLoading THEN st
    ELSE LET ring == slice(Append(st.errorHistory, [error |-> msg, timestamp |-> t]),
                           RING_CAPACITY)
         IN  IF Len(ring) >= TRIP_COUNT
             THEN IF every(sliceLast(ring, TRIP_COUNT), msg) /\ ~debug
                  THEN [errorHistory |-> ring, repeatedError |-> msg, shouldStop |-> TRUE]
                  ELSE [errorHistory |-> ring, repeatedError |-> Null, shouldStop |-> FALSE]
             ELSE [st EXCEPT !.errorHistory = ring]

errorEffect(st, err, isLoading, debug, t) ==
    LET msg == errorMessage(err) IN
    IF msg = "" \/ isLoading THEN st
    ELSE LET ring == sliceLast(Append(st.errorHistory, [error |-> msg, timestamp |-> t]),
                               RING_CAPACITY)
         IN  IF Len(ring) >= TRIP_COUNT
             THEN IF every(sliceLast(ring, TRIP_COUNT), msg) /\ ~debug
                  THEN [errorHistory |-> ring, repeatedError |-> msg, shouldStop |-> TRUE]
                  ELSE [errorHistory |-> ring, repeatedError |-> Null, shouldStop |-> FALSE]
             ELSE [st EXCEPT !.errorHistory = ring]

\* ChatHistoryList.tsx 316-322: the body of the reset effect
resetEffect_KeepsRing(st, err, isLoading) ==
    IF err = NullRec /\ ~isLoading
    THEN [st EXCEPT !.repeatedError = Null, !.shouldStop = FALSE]
    ELSE st

resetEffect(st, err, isLoading) ==
    IF err = NullRec /\ ~isLoading
    THEN [errorHistory |-> <<>>, repeatedError |-> Null, shouldStop |-> FALSE]
    ELSE st

\* ChatHistoryList.tsx 324-399: what ChatError renders
ChatErrorView_TripsInDebug(st, err, isLoading, debug) ==
    IF err = NullRec \/ isLoading THEN "none"
    ELSE IF st.shouldStop /\ st.repeatedError \notin {Null, ""} THEN "tripped"
    ELSE IF ~debug THEN "error"
    ELSE "retry"

ChatErrorView(st, err, isLoading, debug) ==
    IF err = NullRec \/ isLoading THEN "none"
    ELSE IF st.shouldStop /\ st.repeatedError \notin {Null, ""} /\ ~debug THEN "tripped"
    ELSE IF ~debug THEN "error"
    ELSE "retry"

BreakerState ==
    [errorHistory |-> errorHistory, repeatedError |-> repeatedError, shouldStop |-> shouldStop]

\* One commit of ChatError after the stream or the settings changed: React
\* runs, in order of declaration, each effect one of whose dependencies
\* changed ([errorMessage, isLoading, debugMode] and [error, isLoading]).
\* On mount (mounting = TRUE) both run.
RunEffects(st, mounting, err0, l0, d0, err, l, d, t) ==
    LET deps1 == mounting \/ <<errorMessage(err0), l0, d0>> # <<errorMessage(err), l, d>>
        deps2 == mounting \/ <<err0, l0>> # <<err, l>>
        st1 == IF deps1 THEN errorEffect(st, err, l, d, t) ELSE st
    IN  IF deps2 THEN resetEffect(st1, err, l) ELSE st1

Commit(mounting, err, l, d, t) ==
    LET st0 == IF mounting
               THEN [errorHistory |-> <<>>, repeatedError |-> Null, shouldStop |-> FALSE]
               ELSE BreakerState
        st == RunEffects(st0, mounting, threadError, threadIsLoading, debugMode, err, l, d, t)
    IN  /\ threadError' = err /\ threadIsLoading' = l /\ debugMode' = d
        /\ errorHistory' = st.errorHistory
        /\ repeatedError' = st.repeatedError
        /\ shouldStop' = st.shouldStop
        /\ now' = t
        /\ lastOp' = [op |-> IF mounting THEN "mount"
                             ELSE IF d # debugMode THEN "toggleDebug" ELSE "stream",
                      pushed |-> Len(st0.errorHistory) < Len(st.errorHistory)
                                 \/ (st.errorHistory # <<>> /\ st.errorHistory # st0.errorHistory),
                      cleared |-> st0.errorHistory # <<>> /\ st.errorHistory = <<>>,
                      tripped |-> st0.shouldStop]

\* SpecBreaker: one mounted ChatError under every sequence of stream
\* states (the stream is an external collaborator: any change of its error
\* and loading flag may follow any other) and debug-mode toggles.
InitBreaker ==
    /\ ThreadIdle
    /\ AuthSignedIn(Alice, "tokA") /\ AsyncIdle /\ RenderedAt("/threads")
    /\ chats = [c \in Consumers |-> <<>>] /\ ls_chat_history = NullRec /\ savedBy = {}
    /\ \E err \in StreamErrors, l \in BOOLEAN, d \in BOOLEAN :
         LET st == RunEffects([errorHistory |-> <<>>, repeatedError |-> Null, shouldStop |-> FALSE],
                              TRUE, err, l, d, err, l, d, InitialNow)
         IN  /\ threadError = err /\ threadIsLoading = l /\ debugMode = d
             /\ errorHistory = st.errorHistory
             /\ repeatedError = st.repeatedError
             /\ shouldStop = st.shouldStop
    /\ now = InitialNow
    /\ lastOp = [op |-> "mount", pushed |-> errorHistory # <<>>, cleared |-> FALSE,
                 tripped |-> FALSE]

BreakerFrame == UNCHANGED <<authVars, asyncVars, renderVars, chats, ls_chat_history, savedBy, threadVars>>

\* the stream moves to another (error, isLoading) state
BStreamChange ==
    \E err \in StreamErrors, l \in BOOLEAN, t \in Clock :
        /\ <<err, l>> # <<threadError, threadIsLoading>>
        /\ Commit(FALSE, err, l, debugMode, t)
        /\ BreakerFrame

\* settings.debugMode is switched
BToggleDebug ==
    \E t \in Clock :
        /\ Commit(FALSE, threadError, threadIsLoading, ~debugMode, t)
        /\ BreakerFrame

NextBreaker == BStreamChange \/ BToggleDebug

SpecBreaker == InitBreaker /\ [][NextBreaker]_vars

LastTexts(n) == {errorHistory[i].error : i \in (Len(errorHistory) - n + 1)..Len(errorHistory)}

\* C9: with debug mode off, while an error with text m is displayed and the
\* three most recent observations all carry m, the breaker is tripped: the
\* final view is shown, which has no retry affordance.  The final view is
\* never shown with fewer than three observations in the ring or when the
\* last three differ.
C9_TripsOnThirdEqual ==
    LET view == ChatErrorView(BreakerState, threadError, threadIsLoading, debugMode) IN
    /\ (/\ ~debugMode /\ threadError # NullRec /\ ~threadIsLoading
        /\ errorMessage(threadError) # ""
        /\ Len(errorHistory) >= TRIP_COUNT
        /\ LastTexts(TRIP_COUNT) = {errorMessage(threadError)})
       => (view = "tripped" /\ shouldStop /\ repeatedError = errorMessage(threadError))
    /\ (view = "tripped" \/ shouldStop)
       => (Len(errorHistory) >= TRIP_COUNT /\ LastTexts(TRIP_COUNT) = {repeatedError})

\* Exactly three observations of "timeout", debug mode off: tripped.
C9_Witness ==
    /\ ~debugMode /\ Len(errorHistory) = TRIP_COUNT
    /\ LastTexts(TRIP_COUNT) = {"timeout"}
    /\ ChatErrorView(BreakerState, threadError, threadIsLoading, debugMode) = "tripped"

\* C10: whenever the stream has no error and is not loading, the ring is
\* empty and the breaker is untripped.
C10_SuccessClears ==
    (threadError = NullRec /\ ~threadIsLoading)
    => (errorHistory = <<>> /\ ~shouldStop /\ repeatedError = Null)

\* A success has just emptied a ring that had tripped the breaker.
C10_Witness ==
    /\ threadError = NullRec /\ ~threadIsLoading
    /\ lastOp.op = "stream" /\ lastOp.cleared
    /\ errorHistory = <<>>


\* The tripped breaker (debug mode off) meets an error with another text.
FourthDistinct ==
    /\ shouldStop /\ repeatedError # Null /\ ~debugMode /\ ~debugMode'
    /\ threadError' # NullRec /\ ~threadIsLoading'
    /\ errorMessage(threadError') \notin {"", repeatedError}

\* C11 (as claimed): after three identical errors have tripped the breaker,
\* a fourth error with a different text clears the ring: nothing of the
\* earlier run is left in it.
C11_FourthDistinctClearsRing ==
    [][FourthDistinct =>
          \A i \in DOMAIN errorHistory' : errorHistory'[i].error # repeatedError]_vars

\* C11 (amended): a fourth error with a different text untrips the breaker
\* and is appended to the ring, which keeps its earlier entries up to the
\* capacity; the plain error view is shown instead of the final one.
C11_FourthDistinctUntrips ==
    [][FourthDistinct =>
          /\ ~shouldStop' /\ repeatedError' = Null
          /\ errorHistory' = sliceLast(Append(errorHistory,
                                 [error |-> errorMessage(threadError'), timestamp |-> now']),
                                 RING_CAPACITY)
          /\ ChatErrorView([errorHistory |-> errorHistory', repeatedError |-> repeatedError',
                            shouldStop |-> shouldStop'],
                           threadError', threadIsLoading', debugMode') = "error"]_vars

\* Three "timeout" tripped the breaker and "boom" came fourth.
C11_Witness ==
    /\ lastOp.op = "stream" /\ lastOp.tripped /\ ~debugMode
    /\ Len(errorHistory) = TRIP_COUNT + 1
    /\ \A i \in 1..TRIP_COUNT : errorHistory[i].error = "timeout"
    /\ errorHistory[TRIP_COUNT + 1].error = "boom"
    /\ ~shouldStop


\* C12 (as claimed): once the final view is shown it stays until the stream
\* changes (new user input) or the view is left (navigation); nothing else,
\* a switch of debug mode included, leaves the tripped state.
C12_TrippedIsTerminal ==
    [][(/\ ChatErrorView(BreakerState, threadError, threadIsLoading, debugMode) = "tripped"
        /\ threadError' = threadError /\ threadIsLoading' = threadIsLoading)
       => (/\ ChatErrorView([errorHistory |-> errorHistory', repeatedError |-> repeatedError',
                             shouldStop |-> shouldStop'],
                            threadError', threadIsLoading', debugMode') = "tripped"
           /\ shouldStop')]_vars


\* C13: with debug mode on, whenever the stream has an error and is not
\* loading, the retry affordance is shown, whatever the ring holds and
\* whatever the breaker flags are; the final view is never shown.
C13_DebugAlwaysRetry ==
    debugMode =>
        LET view == ChatErrorView(BreakerState, threadError, threadIsLoading, debugMode) IN
        /\ (threadError # NullRec /\ ~threadIsLoading) => view = "retry"
        /\ view # "tripped"

\* Debug mode on with a full ring of one text: the retry affordance is shown.
C13_Witness ==
    /\ debugMode /\ Len(errorHistory) = RING_CAPACITY
    /\ LastTexts(RING_CAPACITY) = {"timeout"}
    /\ ChatErrorView(BreakerState, threadError, threadIsLoading, debugMode) = "retry"


----------------------------------------------------------------------------
(* SpecIdentity: the identity resolver and the Chat controller's stream    *)
(* configuration over every authentication snapshot the identity source    *)
(* (AuthProvider) can expose: loading flag, user record, token.            *)

SnapshotUsers == {NullRec} \cup {[user_id |-> s] : s \in UserIdInputs}
SnapshotTokens == {Null, "tokA"}

InitIdentity ==
    /\ ThreadIdle
    /\ loading \in BOOLEAN /\ user \in SnapshotUsers /\ token \in SnapshotTokens
    /\ ls_auth_token = token
    /\ ls_auth_user = IF user = NullRec THEN NullRec ELSE [json |-> user]
    /\ AsyncIdle /\ RenderedAt("/") /\ HistoryEmpty /\ BreakerIdle
    /\ lastOp = NoOp

\* The auth state changes (login, restore, verification, logout) and the
\* tree renders again: useUserConfig and threadConfig are recomputed.
IAuthStateChange ==
    \E l \in BOOLEAN, u \in SnapshotUsers, t \in SnapshotTokens :
        /\ <<l, u, t>> # <<loading, user, token>>
        /\ loading' = l /\ user' = u /\ token' = t
        /\ ls_auth_token' = t
        /\ ls_auth_user' = IF u = NullRec THEN NullRec ELSE [json |-> u]
        /\ Render(l, u, t, route)
        /\ lastOp' = [op |-> "authStateChange"]
        /\ UNCHANGED <<asyncVars, historyVars, breakerVars, threadVars>>

NextIdentity == IAuthStateChange

SpecIdentity == InitIdentity /\ [][NextIdentity]_vars

C2_ConfigOnlyWhenReady ==
    (chatMounted /\ userConfig = NullRec) => streamConfigurable = NullRec


----------------------------------------------------------------------------
(* SpecRetry: the retry button of ChatError (debug mode on, the stream     *)
(* holds an error) under every authentication snapshot.                    *)

\* ChatHistoryList.tsx 365-388: the configurable handleRetry submits with,
\* wrapped as [configurable |-> ...]; NullRec when it returns without
\* submitting
handleRetry(uc, u, t) ==
    LET userId == useUserId(u, t) IN
    IF ~isAuthenticated(u, t) \/ userId = NullRec THEN NullRec
    ELSE LET configurable == IF uc # NullRec THEN uc.configurable
                             ELSE [user_id |-> userId.user_id]
         IN  IF ~Truthy(configurable.user_id)
                \/ toLowerCase(trim(configurable.user_id)) = anonymous
             THEN NullRec
             ELSE [configurable |-> configurable]

RetryError == [message |-> "boom"]

InitRetry ==
    /\ ThreadIdle
    /\ loading \in BOOLEAN /\ user \in SnapshotUsers /\ token \in SnapshotTokens
    /\ ls_auth_token = token
    /\ ls_auth_user = IF user = NullRec THEN NullRec ELSE [json |-> user]
    /\ AsyncIdle /\ RenderedAt("/threads") /\ HistoryEmpty
    /\ threadError = RetryError /\ threadIsLoading = FALSE /\ debugMode = TRUE
    /\ errorHistory = <<[error |-> errorMessage(RetryError), timestamp |-> now]>>
    /\ repeatedError = Null /\ shouldStop = FALSE
    /\ lastOp = NoOp

\* The retry button is clicked.  thread.submit() puts the stream into its
\* loading state with the error dropped; a rejected retry leaves it alone.
RRetry ==
    /\ chatMounted
    /\ ChatErrorView(BreakerState, threadError, threadIsLoading, debugMode) = "retry"
    /\ LET submitted == handleRetry(userConfig, user, token)
           st == IF submitted = NullRec THEN BreakerState
                 ELSE RunEffects(BreakerState, FALSE, threadError, threadIsLoading, debugMode,
                                 NullRec, TRUE, debugMode, now)
       IN  /\ threadError' = IF submitted = NullRec THEN threadError ELSE NullRec
           /\ threadIsLoading' = IF submitted = NullRec THEN threadIsLoading ELSE TRUE
           /\ errorHistory' = st.errorHistory
           /\ repeatedError' = st.repeatedError
           /\ shouldStop' = st.shouldStop
           /\ lastOp' = [op |-> "retry", submitted |-> submitted]
    /\ UNCHANGED <<authVars, asyncVars, renderVars, historyVars, debugMode, threadVars>>

\* The run started by a retry fails again.
RStreamFails ==
    /\ threadIsLoading
    /\ Commit(FALSE, RetryError, FALSE, debugMode, now)
    /\ BreakerFrame

NextRetry == IAuthStateChange \/ RRetry \/ RStreamFails

SpecRetry == InitRetry /\ [][NextRetry]_vars

\* C14 (as claimed): a retry submits only when the identity context is
\* ready at that moment; otherwise nothing is submitted.
C14_RetryOnlyWhenReady ==
    (lastOp.op = "retry" /\ lastOp.submitted # NullRec) => userConfig # NullRec

----------------------------------------------------------------------------
(* Spec: the auth lifecycle of AuthProvider with the route gate, the Chat  *)
(* controller's stream configuration and the history store's consumers.    *)

\* Accounts of the backend: what /auth/login and /auth/me answer with.
Anon == [user_id |-> anonymous]
Accounts == { [user |-> Alice, token |-> "tokA"],
              [user |-> Bob, token |-> "tokB"],
              [user |-> Anon, token |-> "tokN"] }
AccountOf(tok) == CHOOSE a \in Accounts : a.token = tok

AppThreadIds == {1, 2}

\* Sidebar, ChatHistoryList and Chat are all below <ProtectedRoute> on the
\* routes modelled here, so they mount and unmount together.
Mounted(l, u, t, r) == ChatIsMounted(l, u, t, r)

\* useChatHistory's load effect (part_003 20-41) in every consumer after a
\* render: it runs on mount and whenever the `user` object was replaced.
RenderHistory(userReplaced, l, u, t, r, stored) ==
    chats' = [c \in Consumers |->
                IF ~Mounted(l, u, t, r) THEN <<>>
                ELSE IF ~chatMounted \/ userReplaced THEN loadChats(u, stored)
                ELSE chats[c]]

\* What the first page load may find under auth_token / auth_user: nothing,
\* or a token beside a user record that JSON.parse rejects.
NotJson == [text |-> "{"]
FirstLoadStorage == {[token |-> Null, user |-> NullRec], [token |-> "tokA", user |-> NotJson]}

\* The state after AuthProvider mounted on the first page load and its
\* restore effect ran (AuthContext.tsx 28-62): setToken(savedToken) comes
\* before JSON.parse; the catch removes both keys and ends loading.
Init ==
    /\ ThreadIdle
    /\ \E stored \in FirstLoadStorage :
         LET restoring == stored.token # Null /\ stored.user # NullRec IN
         /\ token = IF restoring THEN stored.token ELSE Null
         /\ user = NullRec /\ loading = FALSE
    /\ ls_auth_token = Null /\ ls_auth_user = NullRec
    /\ AsyncIdle /\ RenderedAt("/") /\ HistoryEmpty /\ BreakerIdle
    /\ lastOp = NoOp

\* The page is (re)loaded at route r: in-memory state and continuations
\* are gone, AuthProvider mounts and its restore effect runs
\* (AuthContext.tsx 28-62).
Reload(r) ==
    LET savedToken == ls_auth_token
        savedUser == ls_auth_user
        restoring == savedToken # Null /\ savedUser # NullRec
        parses == restoring /\ "json" \in DOMAIN savedUser
        t1 == IF restoring THEN savedToken ELSE Null
        u1 == IF parses THEN savedUser.json ELSE NullRec
        l1 == parses
    IN  /\ token' = t1 /\ user' = u1 /\ loading' = l1
        /\ ls_auth_token' = IF restoring /\ ~parses THEN Null ELSE ls_auth_token
        /\ ls_auth_user' = IF restoring /\ ~parses THEN NullRec ELSE ls_auth_user
        /\ verifyPending' = IF parses THEN savedToken ELSE Null
        /\ sessionPending' = IF parses THEN savedToken ELSE Null
        /\ createSessionLog' = IF parses THEN {savedToken} ELSE {}
        /\ loginPending' = {} /\ logoutPending' = FALSE
        /\ Render(l1, u1, t1, r)
        /\ chats' = [c \in Consumers |->
                        IF Mounted(l1, u1, t1, r) THEN loadChats(u1, ls_chat_history) ELSE <<>>]
        /\ lastOp' = NoOp
        /\ UNCHANGED <<now, ls_chat_history, savedBy, breakerVars, threadVars>>

\* AuthContext.tsx 64-92: /auth/me answers (ok) or is refused or fails
VerifyTokenDone(ok) ==
    /\ verifyPending # Null
    /\ LET u1 == IF ok THEN AccountOf(verifyPending).user ELSE NullRec
           t1 == IF ok THEN verifyPending ELSE Null
       IN  /\ user' = u1 /\ token' = t1 /\ loading' = FALSE
           /\ ls_auth_token' = IF ok THEN ls_auth_token ELSE Null
           /\ ls_auth_user' = IF ok THEN ls_auth_user ELSE NullRec
           /\ verifyPending' = Null
           /\ Render(FALSE, u1, t1, route)
           /\ RenderHistory(TRUE, FALSE, u1, t1, route, ls_chat_history)
    /\ lastOp' = [op |-> IF ok THEN "verified" ELSE "verifyFailed", token |-> verifyPending]
    /\ UNCHANGED <<loginPending, logoutPending, sessionPending, createSessionLog, now, ls_chat_history, savedBy, breakerVars, threadVars>>

\* The login form (shown by ProtectedRoute) or the register form calls
\* login(); the call closes over the `user` of the render it was made in
\* (AuthContext.tsx 94-101).  Both forms disable their submit button while
\* their own call is awaited (Login.tsx 68, part_000 140).
LoginCall(a) ==
    /\ loginPending = {}
    /\ \/ route = "/register"
       \/ route # "/register" /\ ProtectedRoute(loading, user, token) = "login"
    /\ loginPending' = loginPending \cup
            {[account |-> a, closureUser |-> user, from |-> route, phase |-> "fetch"]}
    /\ lastOp' = NoOp
    /\ UNCHANGED <<authVars, verifyPending, logoutPending, sessionPending, createSessionLog, renderVars, historyVars, breakerVars, threadVars>>

\* AuthContext.tsx 103-106: /auth/login refuses; login throws.  Register
\* then navigates to "/?registered=true" (part_000 66-70).
LoginRefused(p) ==
    /\ p \in loginPending /\ p.phase = "fetch"
    /\ loginPending' = loginPending \ {p}
    /\ LET r1 == IF p.from = "/register" /\ route = "/register" THEN "/" ELSE route IN
       /\ Render(loading, user, token, r1)
       /\ RenderHistory(FALSE, loading, user, token, r1, ls_chat_history)
    /\ lastOp' = NoOp
    /\ UNCHANGED <<authVars, verifyPending, logoutPending, sessionPending, createSessionLog, now, ls_chat_history, savedBy, breakerVars, threadVars>>

\* AuthContext.tsx 108-132: /auth/login accepts; the block up to the
\* await of createRedisSession
LoginAccepted(p) ==
    /\ p \in loginPending /\ p.phase = "fetch"
    /\ LET data == p.account
           currentUserId == IF p.closureUser = NullRec THEN <<>> ELSE p.closureUser.user_id
           newUserId == data.user.user_id
           stored == IF Truthy(currentUserId) /\ currentUserId # newUserId
                     THEN NullRec ELSE ls_chat_history
       IN  /\ ls_chat_history' = stored
           /\ token' = data.token /\ user' = data.user
           /\ ls_auth_token' = data.token /\ ls_auth_user' = [json |-> data.user]
           /\ Render(loading, data.user, data.token, route)
           /\ RenderHistory(TRUE, loading, data.user, data.token, route, stored)
    /\ createSessionLog' = createSessionLog \cup {p.account.token}
    /\ loginPending' = (loginPending \ {p}) \cup {[p EXCEPT !.phase = "createSession"]}
    /\ lastOp' = [op |-> "login", token |-> p.account.token]
    /\ UNCHANGED <<loading, verifyPending, logoutPending, sessionPending, now, savedBy, breakerVars, threadVars>>

\* AuthContext.tsx 134-143: createRedisSession returned (sessionOk) or
\* threw; the throw is caught and login resolves either way.  Register then
\* navigates to "/" (part_000 63-65).
LoginResolved_FailureSignsOut(p, sessionOk) ==
    /\ p \in loginPending /\ p.phase = "createSession"
    /\ loginPending' = loginPending \ {p}
    /\ LET r1 == IF p.from = "/register" /\ route = "/register" THEN "/" ELSE route
           u1 == IF sessionOk THEN user ELSE NullRec
           t1 == IF sessionOk THEN token ELSE Null
       IN
       /\ user' = u1 /\ token' = t1
       /\ Render(loading, u1, t1, r1)
       /\ RenderHistory(FALSE, loading, u1, t1, r1, ls_chat_history)
    /\ lastOp' = [op |-> "loginResolved", sessionOk |-> sessionOk, token |-> p.account.token]
    /\ UNCHANGED <<loading, ls_auth_token, ls_auth_user, verifyPending, logoutPending,
                   sessionPending, createSessionLog, now, ls_chat_history, savedBy, breakerVars, threadVars>>

LoginResolved(p, sessionOk) ==
    /\ p \in loginPending /\ p.phase = "createSession"
    /\ loginPending' = loginPending \ {p}
    /\ LET r1 == IF p.from = "/register" /\ route = "/register" THEN "/" ELSE route IN
       /\ Render(loading, user, token, r1)
       /\ RenderHistory(FALSE, loading, user, token, r1, ls_chat_history)
    /\ lastOp' = [op |-> "loginResolved", sessionOk |-> sessionOk, token |-> p.account.token]
    /\ UNCHANGED <<authVars, verifyPending, logoutPending, sessionPending, createSessionLog,
                   now, ls_chat_history, savedBy, breakerVars, threadVars>>

\* AuthContext.tsx 41-52: the restore effect's createRedisSession call
\* returned (sessionOk) or threw; the throw is caught and logged.
RestoreSessionDone(sessionOk) ==
    /\ sessionPending # Null
    /\ sessionPending' = Null
    /\ lastOp' = [op |-> "restoreSessionDone", sessionOk |-> sessionOk, token |-> sessionPending]
    /\ UNCHANGED <<authVars, verifyPending, loginPending, logoutPending, createSessionLog,
                   renderVars, historyVars, breakerVars, threadVars>>

\* Chat.tsx 488-492 (Sidebar.handleLogout) and AuthContext.tsx 146-158:
\* logout() up to the await of /auth/logout; the sidebar is mounted, so a
\* token is set
LogoutCall ==
    /\ chatMounted /\ ~logoutPending
    /\ token # Null
    /\ logoutPending' = TRUE
    /\ lastOp' = NoOp
    /\ UNCHANGED <<authVars, verifyPending, loginPending, sessionPending, createSessionLog, renderVars, historyVars, breakerVars, threadVars>>

\* AuthContext.tsx 160-166: the rest of logout(), whether the request
\* succeeded or threw (serverOk)
LogoutDone_KeepsHistory(serverOk) ==
    /\ logoutPending
    /\ logoutPending' = FALSE
    /\ token' = Null /\ user' = NullRec
    /\ ls_auth_token' = Null /\ ls_auth_user' = NullRec
    /\ Render(loading, NullRec, Null, route)
    /\ RenderHistory(TRUE, loading, NullRec, Null, route, ls_chat_history)
    /\ lastOp' = [op |-> "logout", serverOk |-> serverOk,
                  stored |-> IF ls_chat_history = NullRec THEN 0 ELSE Len(ls_chat_history.json)]
    /\ UNCHANGED <<loading, verifyPending, loginPending, sessionPending, createSessionLog, now, ls_chat_history, savedBy, breakerVars, threadVars>>

LogoutDone(serverOk) ==
    /\ logoutPending
    /\ logoutPending' = FALSE
    /\ token' = Null /\ user' = NullRec
    /\ ls_auth_token' = Null /\ ls_auth_user' = NullRec
    /\ ls_chat_history' = NullRec
    /\ Render(loading, NullRec, Null, route)
    /\ RenderHistory(TRUE, loading, NullRec, Null, route, NullRec)
    /\ lastOp' = [op |-> "logout", serverOk |-> serverOk,
                  stored |-> IF ls_chat_history = NullRec THEN 0 ELSE Len(ls_chat_history.json)]
    /\ UNCHANGED <<loading, verifyPending, loginPending, sessionPending, createSessionLog, now, savedBy, breakerVars, threadVars>>

\* In-app navigation between the chat routes (new chat, a chat of the list)
Navigate(r) ==
    /\ chatMounted /\ r \in {"/", "/threads"} /\ r # route
    /\ Render(loading, user, token, r)
    /\ lastOp' = NoOp
    /\ UNCHANGED <<authVars, asyncVars, historyVars, breakerVars, threadVars>>

Saved(threadId) == {q \in savedBy : q[1] # threadId} \cup {<<threadId, user.user_id>>}

\* Chat.tsx 78, 135, 166: Chat upserts the thread it shows.  No step of the
\* auth lifecycle reads a timestamp; Spec keeps Date.now() at one value.
ChatSaveChat(threadId, t) ==
    /\ chatMounted
    /\ saveChat("Chat", threadId, <<>>, <<>>, t, TRUE)
    /\ savedBy' = Saved(threadId)
    /\ lastOp' = NoOp
    /\ UNCHANGED <<authVars, asyncVars, renderVars, breakerVars, threadVars>>

\* ChatHistoryList.tsx 42-52
ListDeleteChat(threadId) ==
    /\ chatMounted
    /\ findIndex(chats["ChatHistoryList"], threadId) >= 1
    /\ deleteChat("ChatHistoryList", threadId, TRUE)
    /\ lastOp' = NoOp
    /\ UNCHANGED <<authVars, asyncVars, renderVars, savedBy, breakerVars, threadVars>>

Next ==
    \/ \E r \in Routes : Reload(r)
    \/ \E ok \in BOOLEAN : VerifyTokenDone(ok)
    \/ \E a \in Accounts : LoginCall(a)
    \/ \E p \in loginPending : LoginRefused(p)
    \/ \E p \in loginPending : LoginAccepted(p)
    \/ \E p \in loginPending, ok \in BOOLEAN : LoginResolved(p, ok)
    \/ \E ok \in BOOLEAN : RestoreSessionDone(ok)
    \/ LogoutCall
    \/ \E ok \in BOOLEAN : LogoutDone(ok)
    \/ \E r \in Routes : Navigate(r)
    \/ \E threadId \in AppThreadIds : ChatSaveChat(threadId, now)
    \/ \E threadId \in AppThreadIds : ListDeleteChat(threadId)

Spec == Init /\ [][Next]_vars


\* C3: while authentication is loading or the user is not authenticated,
\* <Chat> is not mounted and nothing is handed to useStream, in every
\* state of the auth lifecycle.
C3_ChatOnlyWhenAuthenticated ==
    (loading \/ ~isAuthenticated(user, token)) =>
        (~chatMounted /\ streamConfigurable = NullRec)

\* A thread view is open while a stored session is still being verified:
\* user and token are restored, loading is set, and <Chat> is not mounted.
C3_Witness ==
    /\ route = "/threads" /\ loading /\ verifyPending # Null
    /\ isAuthenticated(user, token)
    /\ ~chatMounted

\* C4 (as claimed): what the current user sees in any view, and what is
\* persisted while a user is set, holds only chats last saved by that user.
OwnedBy(u, list) ==
    \A i \in DOMAIN list : <<list[i].threadId, u.user_id>> \in savedBy

C4_NoCrossIdentityLeak ==
    user # NullRec =>
        /\ \A c \in Consumers : OwnedBy(user, chats[c])
        /\ ls_chat_history # NullRec => OwnedBy(user, ls_chat_history.json)

\* C5: right after logout completes the persisted history is gone and every
\* view is empty, whatever was stored and whatever the server answered.
C5_EmptyAfterLogout ==
    lastOp.op = "logout" =>
        /\ ls_chat_history = NullRec
        /\ \A c \in Consumers : chats[c] = <<>>

\* Logout completed after a failed server request with two chats stored.
C5_Witness ==
    /\ lastOp.op = "logout" /\ ~lastOp.serverOk /\ lastOp.stored = 2
    /\ ls_chat_history = NullRec

\* C16: a createSession failure is not fatal.  An accepted login leaves the
\* user authenticated with user and token persisted before createSession is
\* awaited, and the outcome of createSession, in login and in the restore
\* effect alike, changes nothing of the auth state or of the pending token
\* verification: login resolves and restoration goes on.
C16_CreateSessionNonFatal ==
    [][/\ lastOp'.op = "login" =>
            /\ isAuthenticated(user', token') /\ token' = lastOp'.token
            /\ ls_auth_token' = token' /\ ls_auth_user' = [json |-> user']
       /\ lastOp'.op \in {"loginResolved", "restoreSessionDone"} =>
            UNCHANGED <<authVars, verifyPending>>
       /\ lastOp'.op = "loginResolved" => loginPending' = {}]_vars

\* login resolved after createSession threw: the user is signed in, the
\* session is persisted and <Chat> is mounted.
C16_Witness ==
    /\ lastOp.op = "loginResolved" /\ ~lastOp.sessionOk
    /\ isAuthenticated(user, token) /\ token = lastOp.token
    /\ ls_auth_token = token /\ ls_auth_user = [json |-> user]
    /\ chatMounted

\* C17 (as claimed): createSession is called for every authentication event
\* (accepted login, verified restoration) and never for a session that does
\* not become authenticated.
C17_SessionPerAuthEvent ==
    /\ lastOp.op \in {"login", "verified"} => lastOp.token \in createSessionLog
    /\ lastOp.op = "verifyFailed" => lastOp.token \notin createSessionLog

----------------------------------------------------------------------------
(* SpecThreads: InnerApp, Sidebar and one signed-in user's Chat sessions:  *)
(* thread-id assignment by the backend, the link call, starting a new chat *)
(* and selecting a saved one.  The stream (useStream) is an external       *)
(* collaborator: a thread creation it has asked for is answered at any     *)
(* later time, or never once its Chat is gone.                             *)

\* the chat found in the history at page load
SavedThread == 1

\* bounds: new chats started, thread ids assigned by the backend
MaxReloads == 2
MaxNewThreads == 2

ThreadError == [message |-> "timeout"]

\* ChatError commits after the stream of the mounted Chat moved to
\* (err, isLoading); mounting = TRUE for a fresh Chat
StreamTo(mounting, err, isLoading) ==
    LET st0 == IF mounting
               THEN [errorHistory |-> <<>>, repeatedError |-> Null, shouldStop |-> FALSE]
               ELSE BreakerState
        st == RunEffects(st0, mounting, threadError, threadIsLoading, debugMode,
                         err, isLoading, debugMode, now)
    IN  /\ threadError' = err /\ threadIsLoading' = isLoading
        /\ errorHistory' = st.errorHistory
        /\ repeatedError' = st.repeatedError
        /\ shouldStop' = st.shouldStop
        /\ UNCHANGED debugMode

\* Chat.tsx 130-142: the effect on the :threadId parameter in the mounted
\* Chat, after the route moved to /threads/threadId
threadIdEffect(threadId) ==
    /\ chatCurrentThreadId' = threadId
    /\ appCurrentThreadId' = threadId
    /\ saveChat("Chat", threadId, <<>>, <<>>, now, TRUE)
    /\ savedBy' = {q \in savedBy : q[1] # threadId} \cup {<<threadId, user.user_id>>}
    /\ debugMessages' = IF debugMode THEN {} ELSE debugMessages

InitThreads ==
    /\ AuthSignedIn(Alice, "tokA") /\ AsyncIdle /\ RenderedAt("/")
    /\ now = InitialNow /\ savedBy = {<<SavedThread, Alice.user_id>>}
    /\ ls_chat_history = persisted(saveChatArray(<<>>, SavedThread, <<>>, <<>>, InitialNow))
    /\ chats = [c \in Consumers |-> loadChats(user, ls_chat_history)]
    /\ threadError = NullRec /\ threadIsLoading = FALSE /\ debugMode \in BOOLEAN
    /\ errorHistory = <<>> /\ repeatedError = Null /\ shouldStop = FALSE
    /\ reloadKey = 0 /\ appCurrentThreadId = 0 /\ routeThreadId = 0
    /\ chatCurrentThreadId = 0 /\ debugMessages = {}
    /\ inflight = {} /\ linkPending = {} /\ nextThreadId = SavedThread + 1
    /\ messages = <<>>
    /\ lastOp = NoOp

\* The user sends a message.  Without a thread the stream first asks the
\* backend for one; onThreadId of this Chat is the continuation.
TSubmit ==
    /\ chatMounted /\ ~threadIsLoading
    /\ IF routeThreadId = 0
       THEN /\ nextThreadId + Cardinality(inflight) <= SavedThread + MaxNewThreads
            /\ inflight' = inflight \cup {[inst |-> reloadKey]}
       ELSE UNCHANGED inflight
    /\ StreamTo(FALSE, NullRec, TRUE)
    /\ lastOp' = [op |-> "submit"]
    /\ UNCHANGED <<authVars, asyncVars, renderVars, historyVars, reloadKey, appCurrentThreadId,
                   routeThreadId, chatCurrentThreadId, debugMessages, linkPending, nextThreadId, messages>>

\* The run ends: with an error, or well.
TStreamEnds ==
    /\ threadIsLoading
    /\ \E err \in {NullRec, ThreadError} : StreamTo(FALSE, err, FALSE)
    /\ lastOp' = [op |-> "streamEnds"]
    /\ UNCHANGED <<authVars, asyncVars, renderVars, historyVars, threadVars>>

\* Chat.tsx 73-83 and 130-142: the backend assigned a thread id and the
\* stream calls onThreadId of the Chat that asked (c.inst), mounted or not:
\* setCurrentThreadId, onThreadIdChange, navigate, saveChat, then the link
\* call is issued.  The route change runs the :threadId effect of the
\* mounted Chat.  A Chat that is gone ignores its own state setters.
TOnThreadId(c) ==
    /\ c \in inflight
    /\ inflight' = inflight \ {c}
    /\ nextThreadId' = nextThreadId + 1
    /\ Render(loading, user, token, "/threads")
    /\ routeThreadId' = nextThreadId
    /\ threadIdEffect(nextThreadId)
    /\ linkPending' = linkPending \cup
            {[inst |-> c.inst, threadId |-> nextThreadId, debug |-> debugMode]}
    /\ lastOp' = [op |-> "onThreadId", inst |-> c.inst, threadId |-> nextThreadId]
    /\ UNCHANGED <<authVars, asyncVars, breakerVars, reloadKey, messages>>

\* The stream of a Chat that is gone never answers.
TCancelled(c) ==
    /\ c \in inflight /\ c.inst # reloadKey
    /\ inflight' = inflight \ {c}
    /\ lastOp' = [op |-> "cancelled"]
    /\ UNCHANGED <<authVars, asyncVars, renderVars, historyVars, breakerVars, reloadKey,
                   appCurrentThreadId, routeThreadId, chatCurrentThreadId, debugMessages,
                   linkPending, nextThreadId, messages>>

\* Chat.tsx 84-104: addThreadToRedisSession returned (ok) or threw; the
\* throw is caught.  With debug mode on a returned call adds a debug message.
TLinkDone_FailureEndsChat(p, ok) ==
    /\ p \in linkPending
    /\ linkPending' = linkPending \ {p}
    /\ debugMessages' = IF ok /\ p.debug /\ p.inst = reloadKey
                        THEN debugMessages \cup {p.threadId} ELSE debugMessages
    /\ IF ok THEN UNCHANGED <<renderVars, appCurrentThreadId, routeThreadId, chatCurrentThreadId>>
       ELSE /\ Render(loading, user, token, "/")
            /\ routeThreadId' = 0 /\ appCurrentThreadId' = 0 /\ chatCurrentThreadId' = 0
    /\ lastOp' = [op |-> "linkDone", ok |-> ok, inst |-> p.inst, threadId |-> p.threadId]
    /\ UNCHANGED <<authVars, asyncVars, historyVars, breakerVars, reloadKey,
                   inflight, nextThreadId, messages>>

TLinkDone(p, ok) ==
    /\ p \in linkPending
    /\ linkPending' = linkPending \ {p}
    /\ debugMessages' = IF ok /\ p.debug /\ p.inst = reloadKey
                        THEN debugMessages \cup {p.threadId} ELSE debugMessages
    /\ lastOp' = [op |-> "linkDone", ok |-> ok, inst |-> p.inst, threadId |-> p.threadId]
    /\ UNCHANGED <<authVars, asyncVars, renderVars, historyVars, breakerVars, reloadKey,
                   appCurrentThreadId, routeThreadId, chatCurrentThreadId,
                   inflight, nextThreadId, messages>>

\* Chat.tsx 435-451 and App.tsx 68-74: "new chat": navigate("/") and
\* onNewChat(): reloadKey + 1 gives <Chat> a new key, the stream is stopped
\* and a fresh Chat mounts
TNewChat ==
    /\ chatMounted /\ reloadKey < MaxReloads
    /\ reloadKey' = reloadKey + 1
    /\ Render(loading, user, token, "/")
    /\ routeThreadId' = 0 /\ chatCurrentThreadId' = 0 /\ debugMessages' = {}
    /\ chats' = [chats EXCEPT !["Chat"] = loadChats(user, ls_chat_history)]
    /\ StreamTo(TRUE, NullRec, FALSE)
    /\ lastOp' = [op |-> "newChat"]
    /\ messages' = <<>>
    /\ UNCHANGED <<authVars, asyncVars, now, ls_chat_history, savedBy, appCurrentThreadId,
                   inflight, linkPending, nextThreadId>>

\* ChatHistoryList.tsx 31-34: a chat of the list is clicked:
\* navigate(`/threads/${threadId}`).  <Chat> keeps its key; what its stream
\* reports for the other thread is up to the stream.
TSelectChat(threadId) ==
    /\ chatMounted
    /\ findIndex(chats["ChatHistoryList"], threadId) >= 1
    /\ threadId # routeThreadId
    /\ Render(loading, user, token, "/threads")
    /\ routeThreadId' = threadId
    /\ threadIdEffect(threadId)
    /\ \E err \in {NullRec, threadError}, l \in BOOLEAN : StreamTo(FALSE, err, l)
    /\ lastOp' = [op |-> "selectChat"]
    /\ UNCHANGED <<authVars, asyncVars, reloadKey, inflight, linkPending, nextThreadId, messages>>

NextThreads ==
    \/ TSubmit
    \/ TStreamEnds
    \/ \E c \in inflight : TOnThreadId(c)
    \/ \E c \in inflight : TCancelled(c)
    \/ \E p \in linkPending, ok \in BOOLEAN : TLinkDone(p, ok)
    \/ TNewChat
    \/ \E threadId \in 1..(SavedThread + MaxNewThreads) : TSelectChat(threadId)

SpecThreads == InitThreads /\ [][NextThreads]_vars

\* C15: on every thread-id assignment the new id is the active thread (in
\* Chat, in InnerApp and in the route), it is in the history collection of
\* the mounted Chat and in the persisted record, and the link call for it
\* has been issued; a link call that returns or fails leaves the active
\* thread, the route, the history, the stream and the breaker as they are.
C15_LinkFailureNonFatal ==
    [][/\ lastOp'.op = "onThreadId" =>
            LET T == lastOp'.threadId IN
            /\ chatCurrentThreadId' = T /\ appCurrentThreadId' = T
            /\ route' = "/threads" /\ routeThreadId' = T
            /\ findIndex(chats'["Chat"], T) >= 1
            /\ ls_chat_history' = persisted(chats'["Chat"])
            /\ \E p \in linkPending' \ linkPending : p.threadId = T
       /\ lastOp'.op = "linkDone" =>
            UNCHANGED <<renderVars, historyVars, breakerVars, appCurrentThreadId,
                        routeThreadId, chatCurrentThreadId, inflight, reloadKey>>]_vars

\* The link call of the active thread has failed; the thread is still the
\* active one and still in the history.
C15_Witness ==
    /\ lastOp.op = "linkDone" /\ ~lastOp.ok /\ lastOp.inst = reloadKey
    /\ chatCurrentThreadId = lastOp.threadId /\ appCurrentThreadId = lastOp.threadId
    /\ route = "/threads" /\ routeThreadId = lastOp.threadId
    /\ findIndex(chats["Chat"], lastOp.threadId) >= 1
    /\ ls_chat_history = persisted(chats["Chat"])

\* C18: every switch of the active thread, by "new chat" or by a click in
\* the history list, gives <Chat> a new key (the previous Chat and its
\* stream are torn down), and the new view starts with an empty error ring
\* and an untripped breaker.
C18_SwitchBuildsNewSession ==
    [][lastOp'.op \in {"newChat", "selectChat"} =>
            /\ reloadKey' # reloadKey
            /\ errorHistory' = <<>> /\ repeatedError' = Null /\ ~shouldStop']_vars

\* C19: a thread-id assignment or a link-call result that belongs to a Chat
\* that is gone changes neither the active thread id (in InnerApp and in
\* the mounted Chat), nor the route, nor the debug messages of the mounted
\* Chat.
C19_LateResponseIgnored ==
    [][(lastOp'.op \in {"onThreadId", "linkDone"} /\ lastOp'.inst # reloadKey) =>
            UNCHANGED <<route, routeThreadId, appCurrentThreadId,
                        chatCurrentThreadId, debugMessages>>]_vars

\* C20: all mounted consumers of useChatHistory hold the same collection,
\* and it is the persisted one.
C20_OneSharedCollection ==
    chatMounted =>
        \A c \in Consumers :
            /\ chats[c] = chats["Chat"]
            /\ ls_chat_history = persisted(chats[c])

----------------------------------------------------------------------------
(* SpecStore: one useChatHistory instance called with every kind of title  *)
(* and preview, while localStorage.setItem may throw (quota, private mode). *)

\* a text one character longer than a title may be
LongText == [i \in 1..(TITLE_MAX + 1) |-> "x"]

StoreThreadIds == {1}

\* message previews: absent, blank, markup only, markup around text, long
StoreMessages ==
    {<<>>, <<" ">>, TaskOpen \o TaskClose,
     TaskOpen \o <<" ", "h", "i">> \o TaskClose, LongText}

\* explicit titles: absent, blank, padded, long
StoreTitles == {<<>>, <<" ">>, <<" ", "T", " ">>, <<" ">> \o LongText}

\* ChatHistoryList.tsx 60-63: a rename passes a trimmed non-empty title
RenameTitles == {<<"R">>}

\* the title threadId has in the collection, empty when it is absent (no
\* record carries an empty title)
titleOf(s, threadId) ==
    IF findIndex(s, threadId) >= 1 THEN s[findIndex(s, threadId)].title ELSE <<>>

InitStore ==
    /\ ThreadIdle
    /\ AuthSignedIn(Alice, "tokA") /\ AsyncIdle /\ RenderedAt("/") /\ BreakerIdle
    /\ now = InitialNow /\ savedBy = {}
    /\ \E n \in {0, 1} :
         /\ ls_chat_history = IF n = 0 THEN NullRec ELSE persisted(Populate(n))
         /\ chats = [c \in Consumers |->
                        IF c = Instance THEN loadChats(user, ls_chat_history) ELSE <<>>]
    /\ lastOp = NoOp

SSaveChat ==
    \E threadId \in StoreThreadIds, fm \in StoreMessages, title \in StoreTitles,
       writeOk \in BOOLEAN :
        /\ saveChat(Instance, threadId, fm, title, now, writeOk)
        /\ lastOp' = [op |-> "saveChat", threadId |-> threadId, firstMessage |-> fm,
                      customTitle |-> title, writeOk |-> writeOk,
                      prevTitle |-> titleOf(chats[Instance], threadId)]
        /\ HistoryFrame

SDeleteChat ==
    \E threadId \in StoreThreadIds, writeOk \in BOOLEAN :
        /\ deleteChat(Instance, threadId, writeOk)
        /\ lastOp' = [op |-> "deleteChat", threadId |-> threadId, writeOk |-> writeOk]
        /\ HistoryFrame

SUpdateChatTitle ==
    \E threadId \in StoreThreadIds, title \in RenameTitles, writeOk \in BOOLEAN :
        /\ updateChatTitle(Instance, threadId, title, now, writeOk)
        /\ lastOp' = [op |-> "updateChatTitle", threadId |-> threadId,
                      customTitle |-> title, writeOk |-> writeOk,
                      prevTitle |-> titleOf(chats[Instance], threadId)]
        /\ HistoryFrame

NextStore == SSaveChat \/ SDeleteChat \/ SUpdateChatTitle

SpecStore == InitStore /\ [][NextStore]_vars

\* C21: a saveChat, updateChatTitle or deleteChat whose localStorage write
\* throws still changes the in-memory collection (the thread is there after
\* an upsert, gone after a remove, renamed after a rename) and leaves the
\* persisted record as it was; when the write succeeds the persisted record
\* is the in-memory collection after the mutation.
C21_WriteFailureKeepsMemory ==
    [][lastOp'.op \in {"saveChat", "updateChatTitle", "deleteChat"} =>
            LET T == lastOp'.threadId
                new == chats'[Instance]
            IN  /\ lastOp'.op = "saveChat" =>
                        /\ findIndex(new, T) >= 1
                        /\ new[findIndex(new, T)].updatedAt = now'
                /\ lastOp'.op = "deleteChat" => findIndex(new, T) = 0
                /\ (lastOp'.op = "updateChatTitle" /\ lastOp'.prevTitle # <<>>) =>
                        titleOf(new, T) = lastOp'.customTitle
                /\ lastOp'.writeOk => ls_chat_history' = [json |-> new]
                /\ ~lastOp'.writeOk => ls_chat_history' = ls_chat_history]_vars

\* A remove and an upsert whose writes failed: the thread is gone from
\* memory and still persisted, or in memory and not persisted.
C21_Witness ==
    /\ lastOp.op \in {"saveChat", "deleteChat"}
    /\ ~lastOp.writeOk /\ ls_chat_history # NullRec
    /\ \/ /\ lastOp.op = "deleteChat"
          /\ findIndex(chats[Instance], lastOp.threadId) = 0
          /\ findIndex(ls_chat_history.json, lastOp.threadId) >= 1
       \/ /\ lastOp.op = "saveChat"
          /\ findIndex(chats[Instance], lastOp.threadId) >= 1
          /\ findIndex(ls_chat_history.json, lastOp.threadId) = 0

\* C25: after saveChat(T, preview, title) the record of T carries: the
\* trimmed title cut to 100 characters when the title is not blank;
\* otherwise the preview without <task> markup, trimmed and cut to 100
\* characters, when that is not empty; otherwise the dated placeholder --
\* whether T was new or present, whatever title it had.
C25_TitlePrecedence ==
    [][lastOp'.op = "saveChat" =>
            LET title == titleOf(chats'[Instance], lastOp'.threadId)
                explicit == trim(lastOp'.customTitle)
                preview == cleanMessage(lastOp'.firstMessage)
            IN  /\ title # <<>> /\ Len(title) <= TITLE_MAX
                /\ title = IF explicit # <<>> THEN SubSeq(explicit, 1, Min(Len(explicit), TITLE_MAX))
                           ELSE IF preview # <<>>
                                THEN SubSeq(preview, 1, Min(Len(preview), TITLE_MAX))
                           ELSE placeholderTitle]_vars

\* A thread renamed to "R" was upserted with neither title nor preview and
\* now carries the placeholder.
C25_Witness ==
    /\ lastOp.op = "saveChat" /\ lastOp.prevTitle = <<"R">>
    /\ lastOp.customTitle = <<>> /\ lastOp.firstMessage = <<>>
    /\ titleOf(chats[Instance], lastOp.threadId) = placeholderTitle

\* "Anonymous" in the letter cases the inputs hold
AnonymousSpellings == {c \in IdCores : Len(c) = Len(anonymous) /\ toLowerCase(c) = anonymous}

C23_RingHoldsMostRecent ==
    /\ [](/\ Len(errorHistory) <= RING_CAPACITY
          /\ \A i \in 1..(Len(errorHistory) - 1) :
                errorHistory[i].timestamp <= errorHistory[i + 1].timestamp)
    /\ [][LET record == [error |-> errorMessage(threadError'), timestamp |-> now']
              appended == errorHistory \o <<record>>
              observed ==
                  /\ errorMessage(threadError') # "" /\ ~threadIsLoading'
                  /\ <<errorMessage(threadError'), threadIsLoading', debugMode'>>
                        # <<errorMessage(threadError), threadIsLoading, debugMode>>
          IN  IF observed
              THEN errorHistory' = IF Len(appended) <= RING_CAPACITY THEN appended
                                   ELSE SubSeq(appended, 2, Len(appended))
              ELSE errorHistory' \in {errorHistory, <<>>}]_vars

\* A sixth record has pushed the oldest one out of a full ring: the ring
\* holds five records, and only its newest is "boom".
C23_Witness ==
    /\ lastOp.op = "stream" /\ lastOp.pushed
    /\ Len(errorHistory) = RING_CAPACITY
    /\ errorHistory[RING_CAPACITY].error = "boom"
    /\ \A i \in 1..(RING_CAPACITY - 1) : errorHistory[i].error = "timeout"
    /\ errorHistory[1].timestamp = now

\* C27: a debug-mode toggle is not an error event and appends nothing to
\* the error ring.
C27_ToggleAppendsNothing ==
    [][lastOp'.op = "toggleDebug" => errorHistory' = errorHistory]_vars

----------------------------------------------------------------------------
(* SpecIndicator: ThinkingIndicator (part_001) over the message sequences  *)
(* and loading states a stream can show.                                   *)

MaxMessages == 3

\* tool names: a plain tool and a sub-agent (name.includes("_agent"))
ToolNames == {"search", "email_agent"}
isAgent(toolName) == toolName = "email_agent"

\* a message: its type and its tool_calls (none for human and tool messages)
MessageKinds ==
    {[type |-> "human", tool_calls |-> <<>>],
     [type |-> "tool", tool_calls |-> <<>>],
     [type |-> "ai", tool_calls |-> <<>>]}
    \cup {[type |-> "ai", tool_calls |-> <<[name |-> n]>>] : n \in ToolNames}

\* part_001 29-30
isWaitingForUser(msgs) == msgs # <<>> /\ msgs[Len(msgs)].type = "ai"

\* part_001 14-84: what ThinkingIndicator renders: "none" or a status text
ThinkingIndicator(msgs, isLoading, debug) ==
    IF debug THEN "none"
    ELSE LET isProcessing == isLoading /\ ~isWaitingForUser(msgs)
             hasActiveToolCalls == msgs # <<>> /\ Len(msgs[Len(msgs)].tool_calls) > 0
             lastToolMessage == msgs # <<>> /\ msgs[Len(msgs)].type = "tool"
             shouldShow == isProcessing /\ (hasActiveToolCalls \/ lastToolMessage \/ Len(msgs) > 0)
         IN  IF Len(msgs) <= 0 \/ isWaitingForUser(msgs) \/ ~shouldShow THEN "none"
             ELSE IF hasActiveToolCalls
                  THEN IF isAgent(msgs[Len(msgs)].tool_calls[1].name)
                       THEN "subAgent" ELSE "tool"
             ELSE IF lastToolMessage THEN "toolResult"
             ELSE "processing"

\* the render of ThinkingIndicator, as the last operation
Rendered(msgs, isLoading, debug) ==
    [op |-> "render", isWaitingForUser |-> isWaitingForUser(msgs),
     shown |-> ThinkingIndicator(msgs, isLoading, debug)]

InitIndicator ==
    /\ AuthSignedIn(Alice, "tokA") /\ AsyncIdle /\ RenderedAt("/threads")
    /\ chats = [c \in Consumers |-> <<>>] /\ ls_chat_history = NullRec /\ savedBy = {}
    /\ now = InitialNow
    /\ threadError = NullRec /\ threadIsLoading \in BOOLEAN /\ debugMode = FALSE
    /\ errorHistory = <<>> /\ repeatedError = Null /\ shouldStop = FALSE
    /\ reloadKey = 0 /\ appCurrentThreadId = 1 /\ routeThreadId = 1
    /\ chatCurrentThreadId = 1 /\ debugMessages = {}
    /\ inflight = {} /\ linkPending = {} /\ nextThreadId = 2
    /\ messages = <<>>
    /\ lastOp = Rendered(messages, threadIsLoading, debugMode)

IndicatorFrame ==
    UNCHANGED <<authVars, asyncVars, renderVars, historyVars, reloadKey, appCurrentThreadId,
                routeThreadId, chatCurrentThreadId, debugMessages, inflight, linkPending,
                nextThreadId>>

\* the stream delivers one more message
IMessage ==
    \E m \in MessageKinds :
        /\ Len(messages) < MaxMessages
        /\ messages' = Append(messages, m)
        /\ lastOp' = Rendered(messages', threadIsLoading, debugMode)
        /\ UNCHANGED breakerVars
        /\ IndicatorFrame

\* a run starts or ends
ILoadingChange ==
    /\ StreamTo(FALSE, NullRec, ~threadIsLoading)
    /\ lastOp' = Rendered(messages, threadIsLoading', debugMode)
    /\ UNCHANGED messages
    /\ IndicatorFrame

NextIndicator == IMessage \/ ILoadingChange

SpecIndicator == InitIndicator /\ [][NextIndicator]_vars

\* C24: isWaitingForUser is true exactly when the last message is an ai
\* message without tool calls.
C24_WaitingIffAgentWithoutTools ==
    lastOp.op = "render" =>
        (lastOp.isWaitingForUser <=>
            /\ messages # <<>>
            /\ messages[Len(messages)].type = "ai"
            /\ messages[Len(messages)].tool_calls = <<>>)

\* C30: whenever loading is false, user and token are both set or both
\* null, and a token is held in memory only while an auth token is persisted.
C30_UserAndTokenTogether ==
    ~loading =>
        /\ (user = NullRec) <=> (token = Null)
        /\ token # Null => ls_auth_token # Null

\* C26: <Chat> is never mounted for a user whose login is still awaiting
\* createRedisSession.
C26_SessionBeforeStream ==
    chatMounted =>
        ~\E p \in loginPending : p.phase = "createSession" /\ p.account.token = token

\* C28: a verifyToken response for a restored session that arrives after a
\* login has replaced the persisted session changes neither the in-memory
\* user and token nor the persisted auth record.
C28_LoginSurvivesLateVerification ==
    [][(/\ lastOp'.op \in {"verified", "verifyFailed"}
        /\ ls_auth_token \notin {Null, lastOp'.token}) =>
            UNCHANGED <<user, token, ls_auth_token, ls_auth_user>>]_vars

----------------------------------------------------------------------------
(* SpecShared: the useChatHistory instances of Chat and ChatHistoryList,   *)
(* mounted together over one localStorage record: Chat upserts the thread  *)
(* it shows, the list renames and removes the chats it lists.              *)

SharedThreadIds == {1, 2, 3}

InitShared ==
    /\ ThreadIdle
    /\ AuthSignedIn(Alice, "tokA") /\ AsyncIdle /\ RenderedAt("/") /\ BreakerIdle
    /\ now = InitialNow /\ savedBy = {}
    /\ \E n \in {0, 2} :
         /\ ls_chat_history = IF n = 0 THEN NullRec ELSE persisted(Populate(n))
         /\ chats = [c \in Consumers |-> loadChats(user, ls_chat_history)]
    /\ lastOp = NoOp

\* Chat.tsx 78, 135
ShSaveChat ==
    \E threadId \in SharedThreadIds :
        /\ saveChat("Chat", threadId, <<>>, <<>>, now, TRUE)
        /\ lastOp' = [op |-> "saveChat", threadId |-> threadId]
        /\ HistoryFrame

\* ChatHistoryList.tsx 42-52
ShDeleteChat ==
    \E threadId \in SharedThreadIds :
        /\ findIndex(chats["ChatHistoryList"], threadId) >= 1
        /\ deleteChat("ChatHistoryList", threadId, TRUE)
        /\ lastOp' = [op |-> "deleteChat", threadId |-> threadId]
        /\ HistoryFrame

\* ChatHistoryList.tsx 60-67
ShUpdateChatTitle ==
    \E threadId \in SharedThreadIds, title \in RenameTitles :
        /\ findIndex(chats["ChatHistoryList"], threadId) >= 1
        /\ updateChatTitle("ChatHistoryList", threadId, title, now, TRUE)
        /\ lastOp' = [op |-> "updateChatTitle", threadId |-> threadId]
        /\ HistoryFrame

NextShared == ShSaveChat \/ ShDeleteChat \/ ShUpdateChatTitle

SpecShared == InitShared /\ [][NextShared]_vars

\* the thread ids of the persisted collection
PersistedThreadIds(stored) == IF stored = NullRec THEN {} ELSE ThreadIdsOf(stored.json)

\* C29: a thread id enters the persisted collection only by an upsert of
\* that id (so a removed thread stays removed until it is upserted again),
\* and leaves it only by a remove of that id (so a mutation of another
\* thread drops no record).
C29_RemovedStaysRemoved ==
    [][\A T \in SharedThreadIds :
          /\ (T \notin PersistedThreadIds(ls_chat_history)
                /\ T \in PersistedThreadIds(ls_chat_history')) =>
                    lastOp' = [op |-> "saveChat", threadId |-> T]
          /\ (T \in PersistedThreadIds(ls_chat_history)
                /\ T \notin PersistedThreadIds(ls_chat_history')) =>
                    lastOp' = [op |-> "deleteChat", threadId |-> T]]_vars

====
